---------------------------- MODULE Spec2Model ----------------------------
(***************************************************************************)
(* dir-diff: the facades is_different and see_difference (src/src/lib.rs), *)
(* the paired walk iterator DirDiff/IntoIter, on a static and on a live    *)
(* file system, the DiffEntry assertion policy (src/src/iter.rs), the      *)
(* pairing of file names zip_dir_files_to_same_name (src/src/lib.rs) and   *)
(* the cloning of errors (src/src/error.rs), over a bounded universe of    *)
(* directory trees.                                                        *)
(*                                                                         *)
(* A tree is a function from relative paths (non-empty sequences of file   *)
(* names) to nodes [kind, data].  kind is "file", "dir", "symlink" or      *)
(* "fifo"; data is the byte content of a file, or the target of a symbolic *)
(* link (LinkDangling, LinkToFile, LinkToDir), and 0 otherwise.  A link    *)
(* target lies outside both roots: LinkToFile points at a regular file,    *)
(* LinkToDir at a directory that holds one regular file named ExtName.     *)
(***************************************************************************)
EXTENDS Integers, Sequences, FiniteSets, TLC

\* Bounds of the universe of trees: the entries of one tree, and the
\* distinct byte contents of regular files.
MaxEntries == 2
NumContents == 2

\* The file names in use, two of them: as file names 1 sorts before 2.
Names == {1, 2}
Contents == 0..(NumContents - 1)

\* Symbolic link targets (the data field of a "symlink" node).
LinkDangling == 0
LinkToFile == 1
LinkToDir == 2
\* The one file name inside the directory a LinkToDir link points at, and
\* the bytes of every regular file outside the two roots.
ExtName == 1
ExtContent == 0

NoType == "none"

FileNode(c) == [kind |-> "file", data |-> c]
DirNode == [kind |-> "dir", data |-> 0]
LinkNode(t) == [kind |-> "symlink", data |-> t]
FifoNode == [kind |-> "fifo", data |-> 0]

\* ------------------------------------------------------------------------
\* The universe of trees.

Parent(p) == SubSeq(p, 1, Len(p) - 1)

\* The sets of relative paths of at most n entries in which every path's
\* parent directory is present too.
RECURSIVE Shapes(_)
Shapes(n) ==
    IF n = 0 THEN {{}}
    ELSE LET prev == Shapes(n - 1)
         IN  prev \cup
             UNION { { S \cup {Append(d, x)} : d \in {<<>>} \cup S, x \in Names }
                     : S \in {T \in prev : Cardinality(T) = n - 1} }

\* The trees over the leaf nodes `leaves`: a path with children is a
\* directory.
TreesOver(leaves) ==
    UNION { { t \in [S -> leaves \cup {DirNode}] :
                \A p \in S : (\E q \in S : Parent(q) = p) => t[p] = DirNode }
            : S \in Shapes(MaxEntries) }

Children(t, d) == { p[Len(p)] : p \in { q \in DOMAIN t : Parent(q) = d } }

Min(S) == CHOOSE x \in S : \A y \in S : x <= y

\* ------------------------------------------------------------------------
\* walkdir: the traversals of a tree, directories before their contents,
\* symbolic links not followed, the root itself left out (min_depth(1) /
\* skip(1)).  With `sorted` each directory is listed by ascending file name
\* (sort_by(compare_by_file_name)); without it in any order.

RECURSIVE WalksFrom(_, _, _, _)
WalksFrom(t, d, todo, sorted) ==
    IF todo = {} THEN {<<>>}
    ELSE UNION {
           LET p == Append(d, x)
               below == IF t[p].kind = "dir"
                        THEN WalksFrom(t, p, Children(t, p), sorted)
                        ELSE {<<>>}
           IN  { <<p>> \o s1 \o s2 :
                   s1 \in below, s2 \in WalksFrom(t, d, todo \ {x}, sorted) }
           : x \in (IF sorted THEN {Min(todo)} ELSE todo) }

\* lib.rs walk_dir: the one sorted traversal.
walk_dir(t) == CHOOSE s \in WalksFrom(t, <<>>, Children(t, <<>>), TRUE) : TRUE

\* iter.rs DirDiff::walk: the traversals in directory order.
walk(t) == WalksFrom(t, <<>>, Children(t, <<>>), FALSE)

\* A traversal cursor.
Walker(items) == [items |-> items, pos |-> 1]
NoWalker == Walker(<<>>)
Exhausted(w) == w.pos > Len(w.items)
Peek(w) == w.items[w.pos]
Advance(w) == [w EXCEPT !.pos = w.pos + 1]

\* ------------------------------------------------------------------------
\* The file system calls the program makes.  A path is looked up under the
\* tree of its root; a symbolic link is followed when it stands in the
\* directory part of the path, and in the last place only with `follow`.

NoNode == [kind |-> NoType, data |-> 0]

Stat(t, p, follow) ==
    IF p \in DOMAIN t
    THEN IF follow /\ t[p].kind = "symlink"
         THEN CASE t[p].data = LinkToFile -> FileNode(ExtContent)
                [] t[p].data = LinkToDir -> DirNode
                [] OTHER -> NoNode
         ELSE t[p]
    ELSE IF /\ Len(p) >= 2
            /\ Parent(p) \in DOMAIN t
            /\ t[Parent(p)] = LinkNode(LinkToDir)
            /\ p[Len(p)] = ExtName
         THEN FileNode(ExtContent)
         ELSE NoNode

\* std::path::Path::exists: fs::metadata succeeds (links followed).
PathExists(t, p) == Stat(t, p, TRUE).kind # NoType

\* fs::File::open + read_to_end; `fail` is an I/O failure of the call.
read_to_vec(t, p, fail) ==
    LET n == Stat(t, p, TRUE)
    IN  IF fail \/ n.kind # "file"
        THEN [ok |-> FALSE, bytes |-> 0]
        ELSE [ok |-> TRUE, bytes |-> n.data]

\* An entry of the log of files opened: the side, the path and whether the
\* read succeeded.
ReadLog(side, p, r) == [side |-> side, path |-> p, ok |-> r.ok]

\* ------------------------------------------------------------------------
\* State.
\*   left_root, right_root   the tree under each root (a_base, b_base)
\*   a_walker, b_walker      is_different's two sorted traversals
\*   left_walk, right_walk   IntoIter's two traversals
\*   yielded                 the items IntoIter::next has returned so far
\*   entry, verdict          a DiffEntry under assertion and the result
\*   pc                      where the running program stands
\*   ret                     is_different's return value
\*   faulted                 an I/O error was raised by the environment
\*   reads                   the files opened so far, in order
\*   work                    the file system work of the last call of next()
\*   cur                     the step of transposed_next under way
\*   faults, removals        the I/O failures and the removals by another
\*                           process so far
\*   bases                   the names of see_difference's two roots
\*   zipped                  see_difference's pairs of file names still to do
\*   table                   the rows see_difference has added to its table
\*   zip_el1, zip_el2        zip_dir_files_to_same_name's two name lists
\*   zip_el2_before          el2 as it was passed in
\*   inner                   the variant of the InnerIoError being cloned
\*   stack                   the frames of InnerIoError::clone on the stack
\*   cloned                  the variant of the clone returned
VARIABLES left_root, right_root, a_walker, b_walker, left_walk, right_walk,
          yielded, entry, verdict, pc, ret, faulted, reads, work, cur,
          faults, removals, bases, zipped, table, zip_el1, zip_el2,
          zip_el2_before, inner, stack, cloned

vars == <<left_root, right_root, a_walker, b_walker, left_walk, right_walk,
          yielded, entry, verdict, pc, ret, faulted, reads, work, cur,
          faults, removals, bases, zipped, table, zip_el1, zip_el2,
          zip_el2_before, inner, stack, cloned>>

roots == <<left_root, right_root>>
iterVars == <<left_walk, right_walk, yielded, work>>
facadeVars == <<a_walker, b_walker, ret>>
assertVars == <<entry, verdict>>
liveVars == <<cur, faults, removals>>
seeVars == <<bases, zipped, table>>
zipVars == <<zip_el1, zip_el2, zip_el2_before>>
cloneVars == <<inner, stack, cloned>>

NoWork == [taken |-> 0, exists |-> 0, stats |-> 0]
NoCur == [from |-> "none", path |-> <<>>,
          other |-> [ok |-> TRUE, path |-> <<>>, file_type |-> "none"]]
NoBases == <<>>

\* No step of the walk is under way and the file system is left alone.
LiveIdle == cur = NoCur /\ faults = 0 /\ removals = 0

\* see_difference is not running.
SeeIdle == bases = NoBases /\ zipped = <<>> /\ table = <<>>

\* zip_dir_files_to_same_name is not running on lists of its own.
ZipIdle == zip_el1 = <<>> /\ zip_el2 = <<>> /\ zip_el2_before = <<>>

NoError == "none"

\* No error is being cloned.
CloneIdle == inner = NoError /\ stack = 0 /\ cloned = NoError

NoEntry == [left |-> [path |-> <<>>, file_type |-> NoType],
            right |-> [path |-> <<>>, file_type |-> NoType]]
NoVerdict == [ok |-> TRUE, kind |-> "pending", cause |-> FALSE]

\* ------------------------------------------------------------------------
\* lib.rs is_different.

\* walkdir::DirEntry of the sorted traversal.
WalkEntry(t, p) ==
    [path |-> p, depth |-> Len(p), file_type |-> t[p].kind,
     file_name |-> p[Len(p)]]

\* A slip in lib.rs 52-54: the kinds are not compared.
MetaDiffers_NoKind(a, b) ==
    \/ a.depth # b.depth
    \/ a.file_name # b.file_name

\* lib.rs 52-54: the comparisons made before any byte is read.
MetaDiffers(a, b) ==
    \/ a.depth # b.depth
    \/ a.file_type # b.file_type
    \/ a.file_name # b.file_name

\* A slip in lib.rs 61: the two negations left out.
TailDiffers_NoNegation(aNone, bNone) == aNone \/ bNone

\* lib.rs 61: the value returned once the zipped loop has ended.
TailDiffers(aNone, bNone) == (~aNone) \/ (~bNone)

\* The kinds of leaf a tree holds (a directory may be a leaf too).
AllLeaves == {FileNode(c) : c \in Contents}
                 \cup {LinkNode(k) : k \in {LinkDangling, LinkToFile, LinkToDir}}

\* is_different called, lib.rs 44-46.
InitFacade ==
    /\ left_root \in TreesOver(AllLeaves)
    /\ right_root \in TreesOver(AllLeaves)
    /\ a_walker = Walker(walk_dir(left_root))
    /\ b_walker = Walker(walk_dir(right_root))
    /\ left_walk = NoWalker /\ right_walk = NoWalker /\ yielded = <<>>
    /\ work = NoWork /\ LiveIdle /\ SeeIdle /\ ZipIdle /\ CloneIdle
    /\ entry = NoEntry /\ verdict = NoVerdict
    /\ pc = "zip" /\ ret = "none" /\ faulted = FALSE /\ reads = <<>>

Return(v) == pc' = "returned" /\ ret' = v

\* Zip::next with the left traversal exhausted: the right one is not asked.
ZipLeftNone ==
    /\ pc = "zip"
    /\ Exhausted(a_walker)
    /\ pc' = "tail"
    /\ UNCHANGED <<roots, liveVars, seeVars, zipVars, cloneVars,
                   a_walker, b_walker, iterVars, assertVars, ret,
                   faulted, reads>>

\* Zip::next with the right traversal exhausted: the item just taken from
\* the left traversal (an entry, or an error when aerr) is dropped.
ZipRightNone ==
    /\ pc = "zip"
    /\ ~Exhausted(a_walker)
    /\ Exhausted(b_walker)
    /\ \E aerr \in BOOLEAN : faulted' = (faulted \/ aerr)
    /\ a_walker' = Advance(a_walker)
    /\ pc' = "tail"
    /\ UNCHANGED <<roots, liveVars, seeVars, zipVars, cloneVars,
                   b_walker, iterVars, assertVars, ret, reads>>

\* One round of the loop, lib.rs 48-59: aerr, berr say that the traversal
\* gave an error item; afail, bfail that reading the file failed.
ZipPair ==
    /\ pc = "zip"
    /\ ~Exhausted(a_walker)
    /\ ~Exhausted(b_walker)
    /\ a_walker' = Advance(a_walker)
    /\ b_walker' = Advance(b_walker)
    /\ \E aerr, berr, afail, bfail \in BOOLEAN :
         LET a == WalkEntry(left_root, Peek(a_walker))
             b == WalkEntry(right_root, Peek(b_walker))
             ra == read_to_vec(left_root, a.path, afail)
             rb == read_to_vec(right_root, b.path, bfail)
         IN  IF aerr \/ berr
             THEN /\ Return("Err")
                  /\ faulted' = TRUE
                  /\ reads' = reads
             ELSE IF MetaDiffers(a, b)
             THEN /\ Return("Ok(true)")
                  /\ UNCHANGED <<faulted, reads>>
             ELSE IF a.file_type # "file"
             THEN UNCHANGED <<pc, ret, faulted, reads>>
             ELSE IF ~ra.ok
             THEN /\ Return("Err")
                  /\ faulted' = TRUE
                  /\ reads' = Append(reads, ReadLog("left", a.path, ra))
             ELSE /\ reads' = reads \o <<ReadLog("left", a.path, ra),
                                         ReadLog("right", b.path, rb)>>
                  /\ IF ~rb.ok
                     THEN Return("Err") /\ faulted' = TRUE
                     ELSE IF ra.bytes # rb.bytes
                     THEN Return("Ok(true)") /\ faulted' = faulted
                     ELSE UNCHANGED <<pc, ret, faulted>>
    /\ UNCHANGED <<roots, liveVars, seeVars, zipVars, cloneVars,
                   iterVars, assertVars>>

\* lib.rs 61: each traversal is asked once more, the right one only when the
\* left one has nothing; an item that is an error counts as an item.
TailCheck ==
    /\ pc = "tail"
    /\ \E err \in BOOLEAN :
         /\ faulted' = (faulted \/ (err /\ ~(Exhausted(a_walker) /\ Exhausted(b_walker))))
         /\ a_walker' = IF Exhausted(a_walker) THEN a_walker ELSE Advance(a_walker)
         /\ b_walker' = IF Exhausted(a_walker) /\ ~Exhausted(b_walker)
                        THEN Advance(b_walker) ELSE b_walker
    /\ Return(IF TailDiffers(Exhausted(a_walker), Exhausted(b_walker))
              THEN "Ok(true)" ELSE "Ok(false)")
    /\ UNCHANGED <<roots, liveVars, seeVars, zipVars, cloneVars,
                   iterVars, assertVars, reads>>

is_different == ZipLeftNone \/ ZipRightNone \/ ZipPair \/ TailCheck

SpecFacade == InitFacade /\ [][is_different]_vars

\* is_different as a function of two static trees when no call fails,
\* lib.rs 44-62: the zipped loop from the walkers aw and bw, then the tail
\* check.  Zip asks the left traversal first and drops its item when the
\* right one has none.
RECURSIVE ZipLoop(_, _, _, _)
ZipLoop(lt, rt, aw, bw) ==
    IF Exhausted(aw)
    THEN TailDiffers(Exhausted(aw), Exhausted(bw))
    ELSE IF Exhausted(bw)
    THEN TailDiffers(Exhausted(Advance(aw)), Exhausted(bw))
    ELSE LET a == WalkEntry(lt, Peek(aw))
             b == WalkEntry(rt, Peek(bw))
         IN  IF MetaDiffers(a, b)
             THEN TRUE
             ELSE IF a.file_type = "file"
                     /\ read_to_vec(lt, a.path, FALSE).bytes
                            # read_to_vec(rt, b.path, FALSE).bytes
             THEN TRUE
             ELSE ZipLoop(lt, rt, Advance(aw), Advance(bw))

is_different_of(lt, rt) ==
    IF ZipLoop(lt, rt, Walker(walk_dir(lt)), Walker(walk_dir(rt)))
    THEN "Ok(true)" ELSE "Ok(false)"

\* ------------------------------------------------------------------------
\* iter.rs: DirEntry, DirDiff, IntoIter.

\* A slip in DirEntry::exists: the kind is not stored.
DirEntry_exists_NoKind(t, p) == [ok |-> TRUE, path |-> p, file_type |-> NoType]

\* DirEntry::exists: fs::symlink_metadata of the path; `ok` is false when the
\* call fails (nothing is there).
DirEntry_exists(t, p) ==
    LET n == Stat(t, p, FALSE)
    IN  [ok |-> n.kind # NoType, path |-> p, file_type |-> n.kind]

\* DirEntry::missing.
DirEntry_missing(p) == [ok |-> TRUE, path |-> p, file_type |-> NoType]

\* iter.rs 253-257 and 276: the other side is looked for with Path::exists.
Counterpart(t, p) ==
    IF PathExists(t, p) THEN DirEntry_exists(t, p) ELSE DirEntry_missing(p)

DirEntryOf(r) == [path |-> r.path, file_type |-> r.file_type]

\* What transposed_next returns for the two resolved sides: Ok(Some(entry)),
\* or the error of the side that failed (`?` on the right side first in the
\* left-driven phase, on the left side first in the right-driven one).
Item(l, r, from) ==
    [ok |-> l.ok /\ r.ok, from |-> from,
     left |-> DirEntryOf(l), right |-> DirEntryOf(r)]

\* A slip in iter.rs 267-286: the right traversal is drained without the
\* existence check.
SkipCovered_NoCheck(t, w) == [w EXCEPT !.pos = Len(w.items) + 1]

\* iter.rs 267-286: the right traversal is advanced past the entries whose
\* path exists under the left root.
RECURSIVE SkipCovered(_, _)
SkipCovered(t, w) ==
    IF Exhausted(w) THEN w
    ELSE IF ~PathExists(t, Peek(w)) THEN w
    ELSE SkipCovered(t, Advance(w))

NoItem == [ok |-> TRUE, from |-> "none",
           left |-> [path |-> <<>>, file_type |-> NoType],
           right |-> [path |-> <<>>, file_type |-> NoType]]

\* A slip in transposed_next: the right-driven phase looks at the next entry
\* of the right traversal without taking it.
transposed_next_NoAdvance(lt, rt, lw, rw) ==
    IF ~Exhausted(lw)
    THEN [some |-> TRUE,
          item |-> Item(DirEntry_exists(lt, Peek(lw)), Counterpart(rt, Peek(lw)),
                        "left"),
          lw |-> Advance(lw), rw |-> rw]
    ELSE LET w == SkipCovered(lt, rw)
         IN  IF ~Exhausted(w)
             THEN [some |-> TRUE,
                   item |-> Item(DirEntry_missing(Peek(w)),
                                 DirEntry_exists(rt, Peek(w)), "right"),
                   lw |-> lw, rw |-> w]
             ELSE [some |-> FALSE, item |-> NoItem, lw |-> lw, rw |-> w]

\* IntoIter::transposed_next, iter.rs 244-289, on the trees lt, rt and the
\* two cursors: whether an item is returned, the item, and the cursors
\* after the call.
transposed_next(lt, rt, lw, rw) ==
    IF ~Exhausted(lw)
    THEN LET p == Peek(lw)
             right == Counterpart(rt, p)
             left == DirEntry_exists(lt, p)
         IN  [some |-> TRUE, item |-> Item(left, right, "left"),
              lw |-> Advance(lw), rw |-> rw]
    ELSE LET w == SkipCovered(lt, rw)
         IN  IF ~Exhausted(w)
             THEN LET p == Peek(w)
                      left == DirEntry_missing(p)
                      right == DirEntry_exists(rt, p)
                  IN  [some |-> TRUE, item |-> Item(left, right, "right"),
                       lw |-> lw, rw |-> Advance(w)]
             ELSE [some |-> FALSE, item |-> NoItem, lw |-> lw, rw |-> w]

\* The file system work of one call of transposed_next, iter.rs 244-289:
\* the entries taken from the two traversals (walkdir next), the existence
\* checks (Path::exists) and the metadata stats (fs::symlink_metadata in
\* DirEntry::exists).
work_of(lt, rt, lw, rw) ==
    IF ~Exhausted(lw)
    THEN [taken |-> 1, exists |-> 1,
          stats |-> IF PathExists(rt, Peek(lw)) THEN 2 ELSE 1]
    ELSE LET w == SkipCovered(lt, rw)
             skipped == w.pos - rw.pos
         IN  IF ~Exhausted(w)
             THEN [taken |-> skipped + 1, exists |-> skipped + 1, stats |-> 1]
             ELSE [taken |-> skipped, exists |-> skipped, stats |-> 0]

\* DirDiff::new and into_iter, iter.rs 23-52.
Init ==
    /\ left_root \in TreesOver(AllLeaves)
    /\ right_root \in TreesOver(AllLeaves)
    /\ \E lw \in walk(left_root) : left_walk = Walker(lw)
    /\ \E rw \in walk(right_root) : right_walk = Walker(rw)
    /\ yielded = <<>>
    /\ work = NoWork /\ LiveIdle /\ SeeIdle /\ ZipIdle /\ CloneIdle
    /\ a_walker = NoWalker /\ b_walker = NoWalker /\ ret = "none"
    /\ entry = NoEntry /\ verdict = NoVerdict
    /\ pc = "iter" /\ faulted = FALSE /\ reads = <<>>

\* Iterator::next, iter.rs 295-302, around transposed_next.
NextStep(r) ==
    /\ left_walk' = r.lw
    /\ right_walk' = r.rw
    /\ work' = work_of(left_root, right_root, left_walk, right_walk)
    /\ yielded' = IF r.some THEN Append(yielded, r.item) ELSE yielded
    /\ pc' = IF r.some THEN "iter" ELSE "done"
    /\ UNCHANGED <<roots, liveVars, seeVars, zipVars, cloneVars,
                   facadeVars, assertVars, faulted, reads>>

\* next() in the left-driven phase, iter.rs 245-265.
NextLeft ==
    /\ pc = "iter"
    /\ ~Exhausted(left_walk)
    /\ NextStep(transposed_next(left_root, right_root, left_walk, right_walk))

\* next() in the right-driven phase, iter.rs 267-286, returning an entry.
NextRight ==
    /\ pc = "iter"
    /\ Exhausted(left_walk)
    /\ LET r == transposed_next(left_root, right_root, left_walk, right_walk)
       IN  r.some /\ NextStep(r)

\* next() returning None, iter.rs 288.
NextNone ==
    /\ pc = "iter"
    /\ Exhausted(left_walk)
    /\ LET r == transposed_next(left_root, right_root, left_walk, right_walk)
       IN  ~r.some /\ NextStep(r)

Next == NextLeft \/ NextRight \/ NextNone

Spec == Init /\ [][Next]_vars

\* ------------------------------------------------------------------------
\* iter.rs: the paired walk on a live file system.  A call of next() is a
\* sequence of file system calls (walkdir next, Path::exists,
\* fs::symlink_metadata); any of them may fail with an I/O error, and between
\* two of them another process may remove an entry.

\* Bounds on what the environment does during one walk.
MaxFaults == 1
MaxRemovals == 1

\* The walk reads no file: one content stands for all.
LiveLeaves == {FileNode(ExtContent)}
                  \cup {LinkNode(k) : k \in {LinkDangling, LinkToFile, LinkToDir}}

\* A slip in iter.rs 245-246 and 267-268: an item that is an error is left in
\* the traversal.
TakeEntry_KeepsOnError(w, terr) ==
    [ok |-> ~terr, path |-> Peek(w), w |-> IF terr THEN w ELSE Advance(w)]

\* walkdir's next(), iter.rs 245 and 267: the next item of the traversal, an
\* entry or (terr) an error; either way the item is consumed.
TakeEntry(w, terr) == [ok |-> ~terr, path |-> Peek(w), w |-> Advance(w)]

\* What next() returns when `?` meets an error (iter.rs 246, 257, 261, 268,
\* 281 and 300): Some(Err(_)), for the entry of path p where one was taken.
ErrItem(from, p) ==
    [ok |-> FALSE, from |-> from,
     left |-> [path |-> p, file_type |-> NoType],
     right |-> [path |-> p, file_type |-> NoType]]

\* DirEntry::exists on the live file system: fs::symlink_metadata fails when
\* nothing is at the path any more, or (mfail) with another I/O error.
DirEntry_exists_live(t, p, mfail) ==
    IF mfail THEN [ok |-> FALSE, path |-> p, file_type |-> NoType]
    ELSE DirEntry_exists(t, p)

\* Path::exists on the live file system: false when fs::metadata fails, for
\* whatever reason (xfail).
PathExists_live(t, p, xfail) == (~xfail) /\ PathExists(t, p)

\* The directory d has been opened by the traversal w (walkdir opens a
\* directory when it yields it, and the root at the first call of next).
Opened(w, d) ==
    \/ d = <<>> /\ w.pos > 1
    \/ \E k \in 1..(w.pos - 1) : w.items[k] = d

\* The traversals after the entry p is removed: an entry not yet taken is no
\* longer listed if its directory was not opened yet, and may or may not be
\* otherwise (the directory stream is read ahead).
AfterRemoval(w, p) ==
    LET without == [w EXCEPT !.items = SelectSeq(w.items, LAMBDA q : q # p)]
    IN  IF \E k \in w.pos..Len(w.items) : w.items[k] = p
        THEN IF Opened(w, Parent(p)) THEN {w, without} ELSE {without}
        ELSE {w}

\* DirDiff::new and into_iter, iter.rs 23-52.
InitLive ==
    /\ left_root \in TreesOver(LiveLeaves)
    /\ right_root \in TreesOver(LiveLeaves)
    /\ \E lw \in walk(left_root) : left_walk = Walker(lw)
    /\ \E rw \in walk(right_root) : right_walk = Walker(rw)
    /\ yielded = <<>>
    /\ work = NoWork /\ LiveIdle /\ SeeIdle /\ ZipIdle /\ CloneIdle
    /\ a_walker = NoWalker /\ b_walker = NoWalker /\ ret = "none"
    /\ entry = NoEntry /\ verdict = NoVerdict
    /\ pc = "iter" /\ faulted = FALSE /\ reads = <<>>

liveFrame == <<facadeVars, assertVars, seeVars, zipVars, cloneVars, reads, work>>

\* The environment raises an I/O error in the call under way.
Fault(b) ==
    /\ b => faults < MaxFaults
    /\ faults' = faults + (IF b THEN 1 ELSE 0)
    /\ faulted' = (faulted \/ b)

\* next() returns Some(Err(_)) for the step under way.
LiveError(from, p) ==
    /\ yielded' = Append(yielded, ErrItem(from, p))
    /\ cur' = NoCur
    /\ pc' = "iter"

\* iter.rs 245-252: the next item of the left traversal.
LiveTakeLeft ==
    /\ pc = "iter"
    /\ ~Exhausted(left_walk)
    /\ \E terr \in BOOLEAN :
         LET r == TakeEntry(left_walk, terr)
         IN  /\ Fault(terr)
             /\ left_walk' = r.w
             /\ IF r.ok
                THEN /\ cur' = [NoCur EXCEPT !.from = "left", !.path = r.path]
                     /\ pc' = "exists"
                     /\ yielded' = yielded
                ELSE LiveError("left", <<>>)
    /\ UNCHANGED <<roots, right_walk, removals, liveFrame>>

\* iter.rs 267-274: the next item of the right traversal.
LiveTakeRight ==
    /\ pc = "iter"
    /\ Exhausted(left_walk)
    /\ ~Exhausted(right_walk)
    /\ \E terr \in BOOLEAN :
         LET r == TakeEntry(right_walk, terr)
         IN  /\ Fault(terr)
             /\ right_walk' = r.w
             /\ IF r.ok
                THEN /\ cur' = [NoCur EXCEPT !.from = "right", !.path = r.path]
                     /\ pc' = "exists"
                     /\ yielded' = yielded
                ELSE LiveError("right", <<>>)
    /\ UNCHANGED <<roots, left_walk, removals, liveFrame>>

\* iter.rs 288: both traversals are drained, next() returns None.
LiveNone ==
    /\ pc = "iter"
    /\ Exhausted(left_walk)
    /\ Exhausted(right_walk)
    /\ pc' = "done"
    /\ UNCHANGED <<roots, left_walk, right_walk, yielded, liveVars, faulted,
                   liveFrame>>

\* iter.rs 253 and 276: Path::exists of the counterpart.  In the left-driven
\* phase the counterpart is then resolved; in the right-driven phase an
\* existing counterpart sends the loop to the next right entry.
LiveExists ==
    /\ pc = "exists"
    /\ \E xfail \in BOOLEAN :
         LET other == IF cur.from = "left" THEN right_root ELSE left_root
             e == PathExists_live(other, cur.path, xfail)
         IN  /\ Fault(xfail)
             /\ IF e
                THEN IF cur.from = "left"
                     THEN pc' = "stat_other" /\ cur' = cur
                     ELSE pc' = "iter" /\ cur' = NoCur
                ELSE /\ pc' = "stat_self"
                     /\ cur' = [cur EXCEPT !.other = DirEntry_missing(cur.path)]
    /\ UNCHANGED <<roots, left_walk, right_walk, yielded, removals, liveFrame>>

\* iter.rs 254 and 257: DirEntry::exists(right)?.
LiveStatOther ==
    /\ pc = "stat_other"
    /\ \E mfail \in BOOLEAN :
         LET r == DirEntry_exists_live(right_root, cur.path, mfail)
         IN  /\ Fault(mfail)
             /\ IF r.ok
                THEN /\ cur' = [cur EXCEPT !.other = r]
                     /\ pc' = "stat_self"
                     /\ yielded' = yielded
                ELSE LiveError(cur.from, cur.path)
    /\ UNCHANGED <<roots, left_walk, right_walk, removals, liveFrame>>

\* iter.rs 261-264 and 281-284: DirEntry::exists(entry_path)?, and the
\* DiffEntry is returned.
LiveStatSelf ==
    /\ pc = "stat_self"
    /\ \E mfail \in BOOLEAN :
         LET own == IF cur.from = "left" THEN left_root ELSE right_root
             r == DirEntry_exists_live(own, cur.path, mfail)
         IN  /\ Fault(mfail)
             /\ IF r.ok
                THEN /\ yielded' = Append(yielded,
                                       IF cur.from = "left"
                                       THEN Item(r, cur.other, "left")
                                       ELSE Item(cur.other, r, "right"))
                     /\ cur' = NoCur
                     /\ pc' = "iter"
                ELSE LiveError(cur.from, cur.path)
    /\ UNCHANGED <<roots, left_walk, right_walk, removals, liveFrame>>

\* Another process removes an entry (a file, a link or an empty directory)
\* under one of the roots.
LiveRemove ==
    /\ pc # "done"
    /\ removals < MaxRemovals
    /\ removals' = removals + 1
    /\ \/ \E p \in DOMAIN left_root :
            /\ Children(left_root, p) = {}
            /\ left_root' = [q \in DOMAIN left_root \ {p} |-> left_root[q]]
            /\ left_walk' \in AfterRemoval(left_walk, p)
            /\ UNCHANGED <<right_root, right_walk>>
       \/ \E p \in DOMAIN right_root :
            /\ Children(right_root, p) = {}
            /\ right_root' = [q \in DOMAIN right_root \ {p} |-> right_root[q]]
            /\ right_walk' \in AfterRemoval(right_walk, p)
            /\ UNCHANGED <<left_root, left_walk>>
    /\ UNCHANGED <<yielded, cur, faults, faulted, pc, liveFrame>>

NextLive ==
    \/ LiveTakeLeft \/ LiveTakeRight \/ LiveNone
    \/ LiveExists \/ LiveStatOther \/ LiveStatSelf
    \/ LiveRemove

SpecLive == InitLive /\ [][NextLive]_vars

\* The walk of two roots without subdirectories, on a file system that may
\* fail and that no other process changes.
InitErr ==
    /\ InitLive
    /\ \A p \in DOMAIN left_root \cup DOMAIN right_root : Len(p) = 1

NextErr ==
    \/ LiveTakeLeft \/ LiveTakeRight \/ LiveNone
    \/ LiveExists \/ LiveStatOther \/ LiveStatSelf

SpecErr == InitErr /\ [][NextErr]_vars

\* ------------------------------------------------------------------------
\* lib.rs see_difference.  A file name is the path of the file as a sequence
\* of components; the table holds the rows added after the two header rows.

\* The component that String::replace(root, "") leaves where a component of
\* the path reads like the root (lib.rs 204).
EmptyName == 0

\* The names a root can have: that of a file under it, or another one.
RootNames == Names \cup {Cardinality(Names) + 1}

\* A line of a file that is not valid UTF-8 (BufRead::lines yields Err).
BadLine == -1

\* The text lines of a regular file with the bytes c.
LinesOf(c) ==
    CASE c = 0 -> <<0>>
      [] c = 1 -> <<1>>
      [] c = 2 -> <<0, 1>>
      [] OTHER -> <<BadLine>>

\* The kinds of leaf see_difference tells apart: regular files, and entries
\* that are not (a dangling symbolic link, a directory).
SeeLeaves == {FileNode(c) : c \in Contents} \cup {LinkNode(LinkDangling)}

Some(name) == [some |-> TRUE, name |-> name]
None == [some |-> FALSE, name |-> <<>>]

\* lib.rs 204: the path with every occurrence of the root removed.
StripRoot(base, p) ==
    [i \in 1..Len(p) |-> IF p[i] = base THEN EmptyName ELSE p[i]]

\* lib.rs 197-207 walk_dir_and_get_only_files: the regular files of a
\* traversal in directory order, without the items that were errors (lost),
\* each as its path with the root removed.
walk_dir_and_get_only_files(t, base, order, lost) ==
    LET files == SelectSeq(order, LAMBDA p : t[p].kind = "file" /\ p \notin lost)
    IN  [i \in 1..Len(files) |-> StripRoot(base, files[i])]

RemoveAt(seq, i) == SubSeq(seq, 1, i - 1) \o SubSeq(seq, i + 1, Len(seq))

\* lib.rs 213-233 zip_dir_files_to_same_name: every name of el1 with the
\* first equal name still in el2, which is taken out of el2, or with None;
\* then the names left in el2 with None on the left.
RECURSIVE zip_dir_files_to_same_name(_, _, _)
zip_dir_files_to_same_name(el1, el2, previous) ==
    IF el1 = <<>>
    THEN previous \o [i \in 1..Len(el2) |-> <<None, Some(el2[i])>>]
    ELSE LET current == Head(el1)
             found == { i \in 1..Len(el2) : el2[i] = current }
         IN  IF found # {}
             THEN zip_dir_files_to_same_name(
                      Tail(el1), RemoveAt(el2, Min(found)),
                      Append(previous, <<Some(current), Some(el2[Min(found)])>>))
             ELSE zip_dir_files_to_same_name(
                      Tail(el1), el2, Append(previous, <<Some(current), None>>))

\* lib.rs 112 and 115: File::open(format!("{}/{}", root, name)) and
\* BufReader::lines.  Empty components fall out of the path; a directory can
\* be opened, and each read of it fails.
OpenLines(t, name, fail) ==
    LET p == SelectSeq(name, LAMBDA x : x # EmptyName)
        n == IF p = <<>> THEN DirNode ELSE Stat(t, p, TRUE)
    IN  [ok |-> ~fail /\ n.kind \in {"file", "dir"},
         endless |-> n.kind = "dir",
         lines |-> IF n.kind = "file" THEN LinesOf(n.data) ELSE <<>>]

Row(file, line, a, b) == [file |-> file, line |-> line, a |-> a, b |-> b]

\* lib.rs 117-180: the rows of two files compared line by line, from the
\* line numbered line_number on.
RECURSIVE CompareLines(_, _, _, _, _)
CompareLines(file_1, file_2, la, lb, line_number) ==
    IF line_number > Len(la) /\ line_number > Len(lb) THEN <<>>
    ELSE LET rest == CompareLines(file_1, file_2, la, lb, line_number + 1)
         IN  IF line_number <= Len(la) /\ line_number <= Len(lb)
             THEN LET content_a == la[line_number]
                      content_b == lb[line_number]
                  IN  IF content_a # BadLine /\ content_b # BadLine
                      THEN IF content_a # content_b
                           THEN <<Row(file_1, line_number, content_a, content_b)>>
                                    \o rest
                           ELSE rest
                      ELSE IF content_a # BadLine
                      THEN <<Row(file_1, line_number, content_a, "")>> \o rest
                      ELSE IF content_b # BadLine
                      THEN <<Row(file_1, line_number, "", content_b)>> \o rest
                      ELSE rest
             ELSE IF line_number <= Len(la)
             THEN <<Row(file_1, line_number,
                        IF la[line_number] # BadLine THEN la[line_number] ELSE "",
                        "")>> \o rest
             ELSE <<Row(file_2, line_number, "",
                        IF lb[line_number] # BadLine THEN lb[line_number] ELSE "")>>
                      \o rest

\* see_difference called, lib.rs 74-98.
InitSee ==
    /\ left_root \in TreesOver(SeeLeaves)
    /\ right_root \in TreesOver(SeeLeaves)
    /\ bases \in { b \in RootNames \X RootNames : b[1] # b[2] }
    /\ \E oa \in walk(left_root), ob \in walk(right_root) :
         \E lost_a \in SUBSET DOMAIN left_root, lost_b \in SUBSET DOMAIN right_root :
            /\ Cardinality(lost_a) + Cardinality(lost_b) <= MaxFaults
            /\ \A p \in lost_a : left_root[p].kind = "file"
            /\ \A p \in lost_b : right_root[p].kind = "file"
            /\ faults = Cardinality(lost_a) + Cardinality(lost_b)
            /\ faulted = (lost_a \cup lost_b # {})
            /\ zipped = zip_dir_files_to_same_name(
                            walk_dir_and_get_only_files(left_root, bases[1], oa, lost_a),
                            walk_dir_and_get_only_files(right_root, bases[2], ob, lost_b),
                            <<>>)
    /\ table = <<>>
    /\ cur = NoCur /\ removals = 0
    /\ a_walker = NoWalker /\ b_walker = NoWalker
    /\ left_walk = NoWalker /\ right_walk = NoWalker /\ yielded = <<>>
    /\ work = NoWork /\ ZipIdle /\ CloneIdle
    /\ entry = NoEntry /\ verdict = NoVerdict
    /\ pc = "see" /\ ret = "none" /\ reads = <<>>

seeFrame == <<roots, a_walker, b_walker, iterVars, assertVars, cur, removals,
              bases, zipVars, cloneVars>>

\* lib.rs 102-104: a name only the left list holds.
SeeLeftOnly ==
    /\ pc = "see" /\ zipped # <<>>
    /\ Head(zipped)[1].some /\ ~Head(zipped)[2].some
    /\ table' = Append(table, Row(Head(zipped)[1].name, 0,
                                   "FILE EXISTS", "DOESN'T EXIST"))
    /\ zipped' = Tail(zipped)
    /\ UNCHANGED <<seeFrame, pc, ret, faults, faulted, reads>>

\* lib.rs 106-108: a name only the right list holds.
SeeRightOnly ==
    /\ pc = "see" /\ zipped # <<>>
    /\ ~Head(zipped)[1].some /\ Head(zipped)[2].some
    /\ table' = Append(table, Row(Head(zipped)[2].name, 0,
                                   "DOESN'T EXIST", "FILE EXISTS"))
    /\ zipped' = Tail(zipped)
    /\ UNCHANGED <<seeFrame, pc, ret, faults, faulted, reads>>

\* lib.rs 110-181: a name both lists hold.  The two files are opened (`?`
\* returns the error of an open that fails, the left one first) and compared
\* line by line; the loop never ends on a directory, whose reads all fail.
SeeBoth ==
    /\ pc = "see" /\ zipped # <<>>
    /\ Head(zipped)[1].some /\ Head(zipped)[2].some
    /\ \E afail, bfail \in BOOLEAN :
         LET file_1 == Head(zipped)[1].name
             file_2 == Head(zipped)[2].name
             a == OpenLines(left_root, file_1, afail)
             b == OpenLines(right_root, file_2, bfail)
         IN  /\ Fault(afail \/ (a.ok /\ bfail))
             /\ afail => ~bfail
             /\ IF ~a.ok
                THEN /\ pc' = "returned" /\ ret' = "Err(Io)"
                     /\ reads' = Append(reads, ReadLog("left", file_1, a))
                     /\ UNCHANGED <<zipped, table>>
                ELSE IF ~b.ok
                THEN /\ pc' = "returned" /\ ret' = "Err(Io)"
                     /\ reads' = reads \o <<ReadLog("left", file_1, a),
                                             ReadLog("right", file_2, b)>>
                     /\ UNCHANGED <<zipped, table>>
                ELSE /\ reads' = reads \o <<ReadLog("left", file_1, a),
                                             ReadLog("right", file_2, b)>>
                     /\ IF a.endless \/ b.endless
                        THEN pc' = "looping" /\ UNCHANGED <<ret, zipped, table>>
                        ELSE /\ table' = table \o
                                    CompareLines(file_1, file_2, a.lines, b.lines, 1)
                             /\ zipped' = Tail(zipped)
                             /\ UNCHANGED <<pc, ret>>
    /\ UNCHANGED seeFrame

\* lib.rs 186-187: the table is printed and Ok(()) returned.
SeeReturn ==
    /\ pc = "see" /\ zipped = <<>>
    /\ pc' = "returned" /\ ret' = "Ok(())"
    /\ UNCHANGED <<seeFrame, zipped, table, faults, faulted, reads>>

see_difference == SeeLeftOnly \/ SeeRightOnly \/ SeeBoth \/ SeeReturn

SpecSee == InitSee /\ [][see_difference]_vars

\* ------------------------------------------------------------------------
\* lib.rs zip_dir_files_to_same_name, one round of its two folds at a time,
\* on any two lists of names without repetition.

MaxNames == 3

\* The names: file paths relative to a root.
ZipNames == { <<n>> : n \in 1..MaxNames }

\* The lists over S that hold no element twice.
DistinctSeqs(S) ==
    { q \in UNION { [1..n -> S] : n \in 0..Cardinality(S) } :
        \A i, j \in DOMAIN q : i # j => q[i] # q[j] }

\* A slip in lib.rs 221: the matched name is copied, not removed from el2.
fold_matched_KeepsEl2(current, el2, previous) ==
    LET found == { i \in 1..Len(el2) : el2[i] = current }
    IN  IF found # {}
        THEN [previous |-> Append(previous, <<Some(current), Some(el2[Min(found)])>>),
              el2 |-> el2]
        ELSE [previous |-> Append(previous, <<Some(current), None>>), el2 |-> el2]

\* lib.rs 219-226, the closure of the first fold: the first position of
\* `current` in el2, whose element is removed from el2 and paired, or None.
fold_matched(current, el2, previous) ==
    LET found == { i \in 1..Len(el2) : el2[i] = current }
    IN  IF found # {}
        THEN [previous |-> Append(previous, <<Some(current), Some(el2[Min(found)])>>),
              el2 |-> RemoveAt(el2, Min(found))]
        ELSE [previous |-> Append(previous, <<Some(current), None>>), el2 |-> el2]

\* lib.rs 229-232, the closure of the second fold.
fold_rest(current, previous) == Append(previous, <<None, Some(current)>>)

\* zip_dir_files_to_same_name called, lib.rs 213-217.
InitZip ==
    /\ zip_el1 \in DistinctSeqs(ZipNames)
    /\ zip_el2 \in DistinctSeqs(ZipNames)
    /\ zip_el2_before = zip_el2
    /\ zipped = <<>> /\ bases = NoBases /\ table = <<>>
    /\ left_root = <<>> /\ right_root = <<>>
    /\ a_walker = NoWalker /\ b_walker = NoWalker
    /\ left_walk = NoWalker /\ right_walk = NoWalker /\ yielded = <<>>
    /\ work = NoWork /\ LiveIdle /\ CloneIdle
    /\ entry = NoEntry /\ verdict = NoVerdict
    /\ pc = "matching" /\ ret = "none" /\ faulted = FALSE /\ reads = <<>>

zipFrame == <<roots, facadeVars, iterVars, assertVars, liveVars, cloneVars,
              bases, table, zip_el1, zip_el2_before, ret, faulted, reads>>

\* One round of the first fold: the next name of el1.
ZipMatch ==
    /\ pc = "matching" /\ Len(zipped) < Len(zip_el1)
    /\ LET r == fold_matched(zip_el1[Len(zipped) + 1], zip_el2, zipped)
       IN  zipped' = r.previous /\ zip_el2' = r.el2
    /\ UNCHANGED <<zipFrame, pc>>

\* el1 is used up: the second fold starts on what is left of el2.
ZipMatched ==
    /\ pc = "matching" /\ Len(zipped) = Len(zip_el1)
    /\ pc' = "rest"
    /\ UNCHANGED <<zipFrame, zipped, zip_el2>>

\* One round of the second fold: the next name left in el2.
ZipRest ==
    /\ pc = "rest" /\ Len(zipped) < Len(zip_el1) + Len(zip_el2)
    /\ zipped' = fold_rest(zip_el2[Len(zipped) - Len(zip_el1) + 1], zipped)
    /\ UNCHANGED <<zipFrame, pc, zip_el2>>

\* The vector of pairs is returned.
ZipReturn ==
    /\ pc = "rest" /\ Len(zipped) = Len(zip_el1) + Len(zip_el2)
    /\ pc' = "returned"
    /\ UNCHANGED <<zipFrame, zipped, zip_el2>>

NextZip == ZipMatch \/ ZipMatched \/ ZipRest \/ ZipReturn

SpecZip == InitZip /\ [][NextZip]_vars

\* ------------------------------------------------------------------------
\* iter.rs: the DiffEntry assertion policy.  An operation returns the verdict
\* (Ok(self), or an AssertionError with its kind and whether it carries a
\* cause) and the log of the files it opened.

OkSelf == [ok |-> TRUE, kind |-> "none", cause |-> FALSE]

\* DiffEntry::into_error / AssertionError::new: no cause.
into_error(kind) == [ok |-> FALSE, kind |-> kind, cause |-> FALSE]

\* AssertionError::with_cause.
with_cause(err) == [err EXCEPT !.cause = TRUE]

file_types(e) == <<e.left.file_type, e.right.file_type>>

are_files(e) == e.left.file_type = "file" /\ e.right.file_type = "file"

\* A slip in content_matches: both files are read before either result is
\* looked at.
content_matches_ReadsBoth(e, lfail, rfail) ==
    LET l == read_to_vec(left_root, e.left.path, lfail)
        r == read_to_vec(right_root, e.right.path, rfail)
    IN  [ok |-> l.ok /\ r.ok, eq |-> l.ok /\ r.ok /\ l.bytes = r.bytes,
         reads |-> <<ReadLog("left", e.left.path, l),
                     ReadLog("right", e.right.path, r)>>]

\* DiffEntry::content_matches, iter.rs 216-220: the left file is read, and
\* the right one only if that succeeded.
content_matches(e, lfail, rfail) ==
    LET l == read_to_vec(left_root, e.left.path, lfail)
        r == read_to_vec(right_root, e.right.path, rfail)
    IN  IF ~l.ok
        THEN [ok |-> FALSE, eq |-> FALSE,
              reads |-> <<ReadLog("left", e.left.path, l)>>]
        ELSE [ok |-> r.ok, eq |-> r.ok /\ l.bytes = r.bytes,
              reads |-> <<ReadLog("left", e.left.path, l),
                          ReadLog("right", e.right.path, r)>>]

\* iter.rs 153-157 and 196-200: the verdict on the result of content_matches.
ContentVerdict(m) ==
    [verdict |-> IF m.ok
                 THEN IF m.eq THEN OkSelf ELSE into_error("Content")
                 ELSE with_cause(into_error("Content")),
     reads |-> m.reads]

NoReads(v) == [verdict |-> v, reads |-> <<>>]

\* A slip in DiffEntry::assert: the kinds are not compared.
DiffEntry_assert_NoTypeCheck(e, lfail, rfail) ==
    IF e.left.file_type = NoType \/ e.right.file_type = NoType
    THEN NoReads(into_error("Missing"))
    ELSE IF e.left.file_type = "file"
    THEN ContentVerdict(content_matches(e, lfail, rfail))
    ELSE NoReads(OkSelf)

\* DiffEntry::assert, iter.rs 146-164.
DiffEntry_assert(e, lfail, rfail) ==
    LET left == file_types(e)[1]
        right == file_types(e)[2]
    IN  IF left # NoType /\ right # NoType
        THEN IF left # right
             THEN NoReads(into_error("FileType"))
             ELSE IF left = "file"
             THEN ContentVerdict(content_matches(e, lfail, rfail))
             ELSE NoReads(OkSelf)
        ELSE NoReads(into_error("Missing"))

\* A slip in DiffEntry::assert_exists: one present side is enough.
DiffEntry_assert_exists_Either(e) ==
    IF file_types(e)[1] # NoType \/ file_types(e)[2] # NoType
    THEN NoReads(OkSelf)
    ELSE NoReads(into_error("Missing"))

\* DiffEntry::assert_exists, iter.rs 167-172.
DiffEntry_assert_exists(e) ==
    IF file_types(e)[1] # NoType /\ file_types(e)[2] # NoType
    THEN NoReads(OkSelf)
    ELSE NoReads(into_error("Missing"))

\* A slip in DiffEntry::assert_file_type: the fall-through arm of
\* assert_exists.
DiffEntry_assert_file_type_Strict(e) ==
    IF file_types(e)[1] # NoType /\ file_types(e)[2] # NoType
    THEN IF file_types(e)[1] # file_types(e)[2]
         THEN NoReads(into_error("FileType"))
         ELSE NoReads(OkSelf)
    ELSE NoReads(into_error("Missing"))

\* DiffEntry::assert_file_type, iter.rs 175-186.
DiffEntry_assert_file_type(e) ==
    IF file_types(e)[1] # NoType /\ file_types(e)[2] # NoType
    THEN IF file_types(e)[1] # file_types(e)[2]
         THEN NoReads(into_error("FileType"))
         ELSE NoReads(OkSelf)
    ELSE NoReads(OkSelf)

\* A slip in DiffEntry::assert_content: the cause is not attached.
DiffEntry_assert_content_NoCause(e, lfail, rfail) ==
    IF ~are_files(e)
    THEN NoReads(OkSelf)
    ELSE LET m == content_matches(e, lfail, rfail)
         IN  [verdict |-> IF m.ok /\ m.eq THEN OkSelf ELSE into_error("Content"),
              reads |-> m.reads]

\* DiffEntry::assert_content, iter.rs 191-201.
DiffEntry_assert_content(e, lfail, rfail) ==
    IF ~are_files(e)
    THEN NoReads(OkSelf)
    ELSE ContentVerdict(content_matches(e, lfail, rfail))

\* The DiffEntry of the relative path p as the two trees stand.
DiffEntryAt(p) ==
    [left |-> DirEntryOf(IF p \in DOMAIN left_root
                         THEN DirEntry_exists(left_root, p)
                         ELSE DirEntry_missing(p)),
     right |-> DirEntryOf(IF p \in DOMAIN right_root
                          THEN DirEntry_exists(right_root, p)
                          ELSE DirEntry_missing(p))]

AssertLeaves == AllLeaves \cup {FifoNode}

\* The trees of at most one entry, directly under the root.
AssertTrees ==
    { t \in TreesOver(AssertLeaves) : \A p \in DOMAIN t : DOMAIN t = {p} /\ Len(p) = 1 }

\* A DiffEntry, of any two sides, is about to be asserted.
InitAssert ==
    /\ left_root \in AssertTrees
    /\ right_root \in AssertTrees
    /\ \E x \in Names : entry = DiffEntryAt(<<x>>)
    /\ verdict = NoVerdict
    /\ a_walker = NoWalker /\ b_walker = NoWalker /\ ret = "none"
    /\ left_walk = NoWalker /\ right_walk = NoWalker /\ yielded = <<>>
    /\ work = NoWork /\ LiveIdle /\ SeeIdle /\ ZipIdle /\ CloneIdle
    /\ pc = "entry" /\ faulted = FALSE /\ reads = <<>>

\* One policy operation has run: `op` names it, r is what it returned.
Asserted(op, r) ==
    /\ pc = "entry"
    /\ pc' = op
    /\ verdict' = r.verdict
    /\ reads' = r.reads
    /\ faulted' = \E i \in 1..Len(r.reads) : ~r.reads[i].ok
    /\ UNCHANGED <<roots, liveVars, seeVars, zipVars, cloneVars,
                   facadeVars, iterVars, entry>>

AssertAll ==
    \E lfail, rfail \in BOOLEAN :
        Asserted("assert", DiffEntry_assert(entry, lfail, rfail))

AssertExists == Asserted("assert_exists", DiffEntry_assert_exists(entry))

AssertFileType == Asserted("assert_file_type", DiffEntry_assert_file_type(entry))

AssertContent ==
    \E lfail, rfail \in BOOLEAN :
        Asserted("assert_content", DiffEntry_assert_content(entry, lfail, rfail))

NextAssert == AssertAll \/ AssertExists \/ AssertFileType \/ AssertContent

SpecAssert == InitAssert /\ [][NextAssert]_vars

\* ------------------------------------------------------------------------
\* error.rs: cloning an AssertionError or an IoError.  The derived clones
\* copy the fields; the IoError inside is cloned by the hand-written
\* InnerIoError::clone, one stack frame per call.

\* The frames of InnerIoError::clone the stack has room for.
MaxStack == 3

\* error.rs 137-141: the variants of InnerIoError.
InnerIoError == {"Io", "WalkDir", "WalkDirEmpty"}

\* The errors the policy operations can return for entry e.
AssertionErrors(e) ==
    { v \in { DiffEntry_assert(e, lfail, rfail).verdict : lfail, rfail \in BOOLEAN }
          \cup { DiffEntry_assert_content(e, lfail, rfail).verdict :
                     lfail, rfail \in BOOLEAN }
          \cup { DiffEntry_assert_exists(e).verdict,
                  DiffEntry_assert_file_type(e).verdict } : ~v.ok }

\* clone() is about to be called: on an AssertionError a policy operation
\* returned, whose cause (error.rs 261-264, iter.rs 216-226) is an Io error,
\* or on an IoError item of the walk (iter.rs 244-289), an Io or a WalkDir
\* error.
InitClone ==
    /\ left_root \in AssertTrees
    /\ right_root \in AssertTrees
    /\ \/ /\ \E x \in Names : entry = DiffEntryAt(<<x>>)
          /\ verdict \in AssertionErrors(entry)
          /\ inner = IF verdict.cause THEN "Io" ELSE NoError
       \/ /\ entry = NoEntry /\ verdict = NoVerdict
          /\ inner \in {"Io", "WalkDir"}
    /\ stack = 0 /\ cloned = NoError
    /\ a_walker = NoWalker /\ b_walker = NoWalker /\ ret = "none"
    /\ left_walk = NoWalker /\ right_walk = NoWalker /\ yielded = <<>>
    /\ work = NoWork /\ LiveIdle /\ SeeIdle /\ ZipIdle
    /\ pc = "clone" /\ faulted = FALSE /\ reads = <<>>

cloneFrame == <<roots, facadeVars, iterVars, assertVars, liveVars, seeVars,
                zipVars, faulted, reads>>

\* error.rs 38-44, derived AssertionError::clone with cause None: the
\* fields are copied and no IoError is cloned.
CloneNoCause ==
    /\ pc = "clone" /\ inner = NoError
    /\ pc' = "cloned"
    /\ UNCHANGED <<cloneFrame, cloneVars>>

\* error.rs 134-135, derived IoError::clone: InnerIoError::clone is called.
CloneCall ==
    /\ pc = "clone" /\ inner \in InnerIoError
    /\ pc' = "inner_clone" /\ stack' = 1
    /\ UNCHANGED <<cloneFrame, inner, cloned>>

\* error.rs 150: a WalkDir error clones to WalkDirEmpty, and the call
\* returns.
CloneWalkDir ==
    /\ pc = "inner_clone" /\ inner = "WalkDir"
    /\ cloned' = "WalkDirEmpty" /\ stack' = 0 /\ pc' = "cloned"
    /\ UNCHANGED <<cloneFrame, inner>>

\* error.rs 148-149: for Io and WalkDirEmpty, self.clone() on
\* self: &InnerIoError is InnerIoError::clone again, on the same value.
CloneSelf ==
    /\ pc = "inner_clone" /\ inner \in {"Io", "WalkDirEmpty"}
    /\ stack < MaxStack
    /\ stack' = stack + 1
    /\ UNCHANGED <<cloneFrame, inner, cloned, pc>>

\* The same call with the stack full: the process is aborted.
CloneOverflow ==
    /\ pc = "inner_clone" /\ inner \in {"Io", "WalkDirEmpty"}
    /\ stack = MaxStack
    /\ pc' = "aborted"
    /\ UNCHANGED <<cloneFrame, cloneVars>>

\* The clone returned is cloned in its turn.
CloneAgain ==
    /\ pc = "cloned" /\ cloned \in InnerIoError
    /\ inner' = cloned /\ cloned' = NoError /\ pc' = "clone"
    /\ UNCHANGED <<cloneFrame, stack>>

NextClone ==
    CloneNoCause \/ CloneCall \/ CloneWalkDir \/ CloneSelf \/ CloneOverflow
        \/ CloneAgain

SpecClone == InitClone /\ [][NextClone]_vars

\* ------------------------------------------------------------------------
\* Properties of is_different (SpecFacade).

\* r is a copy of l: the same relative paths, of the same kinds, regular
\* files with the same bytes.
Copy(l, r) ==
    /\ DOMAIN l = DOMAIN r
    /\ \A p \in DOMAIN l :
         /\ l[p].kind = r[p].kind
         /\ l[p].kind = "file" => l[p].data = r[p].data

\* C1: with no I/O error, is_different returns Ok(false) only if every
\* relative path under either root is under both, with the same kind and,
\* for regular files, the same bytes; so it returns Ok(true) whenever one
\* tree holds a path the other lacks, on whichever side and wherever in the
\* sorted order.
C1_FalseOnlyForCopies ==
    (pc = "returned" /\ ~faulted /\ ret = "Ok(false)")
        => Copy(left_root, right_root)

\* C2: reflexivity.  With no I/O error, is_different of a tree and a copy of
\* it returns Ok(false), two empty roots included.
C2_Reflexive ==
    (pc = "returned" /\ ~faulted /\ Copy(left_root, right_root))
        => ret = "Ok(false)"

\* C2 witness: a copy holding a regular file has been compared to the end.
C2_Witness ==
    /\ pc = "returned" /\ ~faulted /\ ret = "Ok(false)"
    /\ Copy(left_root, right_root)
    /\ Cardinality(DOMAIN left_root) = MaxEntries
    /\ Len(reads) >= 2

\* The items a caller gets by calling next() until it returns None.
RECURSIVE Drain(_, _, _, _)
Drain(lt, rt, lw, rw) ==
    LET r == transposed_next(lt, rt, lw, rw)
    IN  IF r.some THEN <<r.item>> \o Drain(lt, rt, r.lw, r.rw) ELSE <<>>

\* Some entry of the drained walk fails the default policy (no read fails).
SomeEntryFails(items) ==
    \E i \in 1..Len(items) : ~DiffEntry_assert(items[i], FALSE, FALSE).verdict.ok

\* C10: facade and iterator agree.  With no I/O error, is_different returns
\* Ok(true) exactly when some entry of the drained paired walk fails
\* DiffEntry::assert, and Ok(false) exactly when every entry passes.
C10_FacadeAgreesWithWalk ==
    (pc = "returned" /\ ~faulted) =>
        \A lw \in walk(left_root), rw \in walk(right_root) :
            LET items == Drain(left_root, right_root, Walker(lw), Walker(rw))
            IN  /\ ret = "Ok(true)" <=> SomeEntryFails(items)
                /\ ret = "Ok(false)" <=> ~SomeEntryFails(items)

\* C11: I/O errors are never swallowed by is_different.  Once an error item
\* has been taken from a traversal, or a file read has failed, the call
\* returns Err: no such error is dropped and replaced by Ok(true) or
\* Ok(false).
C11_ErrorsPropagate ==
    (pc = "returned" /\ faulted) => ret = "Err"

\* The k-th pair of the zipped traversals.
PairA(k) == WalkEntry(left_root, a_walker.items[k])
PairB(k) == WalkEntry(right_root, b_walker.items[k])

\* The two entries of the k-th pair have the same depth and the same file
\* name and are both regular files.
SameFilePlace(k) ==
    /\ Len(a_walker.items[k]) = Len(b_walker.items[k])
    /\ a_walker.items[k][Len(a_walker.items[k])]
          = b_walker.items[k][Len(b_walker.items[k])]
    /\ left_root[a_walker.items[k]].kind = "file"
    /\ right_root[b_walker.items[k]].kind = "file"

\* The k-th pair differs in depth, kind, name or file bytes.
PairDiffers(k) ==
    \/ PairA(k).depth # PairB(k).depth
    \/ PairA(k).file_type # PairB(k).file_type
    \/ PairA(k).file_name # PairB(k).file_name
    \/ /\ PairA(k).file_type = "file"
       /\ left_root[PairA(k).path].data # right_root[PairB(k).path].data

\* The pairs the zipped loop has taken so far.
PairsTaken ==
    1..(IF a_walker.pos < b_walker.pos THEN a_walker.pos - 1 ELSE b_walker.pos - 1)

\* C12: is_different short-circuits.  When the loop returns Ok(true) the last
\* pair taken is the first pair that differs, neither traversal has been
\* advanced past it and no file of a later pair has been read; and every file
\* that has been opened belongs to a pair taken whose depth, kind and name
\* had compared equal (both regular files).  (A loop exit leaves the two
\* cursors at the same position; the tail check moves one of them.)
C12_ShortCircuit ==
    /\ (pc = "returned" /\ ret = "Ok(true)" /\ a_walker.pos = b_walker.pos) =>
         /\ a_walker.pos >= 2
         /\ PairDiffers(a_walker.pos - 1)
         /\ \A k \in 1..(a_walker.pos - 2) : ~PairDiffers(k)
    /\ \A i \in 1..Len(reads) :
         \E k \in PairsTaken :
            /\ SameFilePlace(k)
            /\ reads[i].path = (IF reads[i].side = "left"
                                THEN a_walker.items[k] ELSE b_walker.items[k])
    /\ (pc = "returned" /\ ret = "Ok(true)" /\ a_walker.pos = b_walker.pos
          /\ ~SameFilePlace(a_walker.pos - 1)) =>
         \A i \in 1..Len(reads) :
            reads[i].path \notin {a_walker.items[a_walker.pos - 1],
                                  b_walker.items[b_walker.pos - 1]}
                \/ \E k \in 1..(a_walker.pos - 2) :
                      SameFilePlace(k) /\ reads[i].path = a_walker.items[k]

\* C12 witness: the loop returned Ok(true) at the second pair, which differs
\* in kind or name, after reading the two equal files of the first pair and
\* nothing else.
C12_Witness ==
    /\ pc = "returned" /\ ret = "Ok(true)"
    /\ a_walker.pos = 3 /\ b_walker.pos = 3
    /\ Len(reads) = 2
    /\ ~PairDiffers(1) /\ ~SameFilePlace(2)

\* C22: is_different is symmetric in its arguments: with no I/O error, the
\* value returned for (left, right) is the value is_different returns for
\* (right, left).
C22_Symmetric ==
    (pc = "returned" /\ ~faulted) => ret = is_different_of(right_root, left_root)

\* ------------------------------------------------------------------------
\* Properties of the paired walk (Spec).

\* The entries yielded for the relative path p.
EntriesFor(p) == { i \in 1..Len(yielded) : yielded[i].ok /\ yielded[i].left.path = p }

UnderLeft(p) == p \in DOMAIN left_root
UnderRight(p) == p \in DOMAIN right_root

\* C3: coverage.  Once the iterator is drained, every relative path under
\* either root has been yielded; a path only under the left root with the
\* right kind absent, a path only under the right root with the left kind
\* absent.
C3_Coverage ==
    pc = "done" =>
        \A p \in DOMAIN left_root \cup DOMAIN right_root :
            /\ EntriesFor(p) # {}
            /\ \A i \in EntriesFor(p) :
                 /\ ~UnderRight(p) => yielded[i].right.file_type = NoType
                 /\ ~UnderLeft(p) => yielded[i].left.file_type = NoType

\* C4: no duplicate pairs.  At most one entry is yielded per relative path,
\* and the entry of a path under both roots comes from the left-driven
\* phase.
C4_NoDuplicates ==
    /\ \A i, j \in 1..Len(yielded) :
         (yielded[i].left.path = yielded[j].left.path) => i = j
    /\ pc = "done" =>
         \A p \in DOMAIN left_root \cap DOMAIN right_root :
             /\ Cardinality(EntriesFor(p)) = 1
             /\ \A i \in EntriesFor(p) : yielded[i].from = "left"

\* C5: every entry yielded as Ok has a present kind on the side whose
\* traversal produced it, and so never two absent kinds.
C5_OneSidePresent ==
    \A i \in 1..Len(yielded) :
        yielded[i].ok =>
            /\ yielded[i].from = "left" => yielded[i].left.file_type # NoType
            /\ yielded[i].from = "right" => yielded[i].right.file_type # NoType
            /\ ~(yielded[i].left.file_type = NoType
                   /\ yielded[i].right.file_type = NoType)

\* C5 witness: a drained walk that yielded a left-only entry in the
\* left-driven phase and a right-only entry in the right-driven phase.
C5_Witness ==
    /\ pc = "done"
    /\ \E i, j \in 1..Len(yielded) :
         /\ yielded[i].from = "left" /\ yielded[i].right.file_type = NoType
         /\ yielded[j].from = "right" /\ yielded[j].left.file_type = NoType

PathsOf(items) == [i \in 1..Len(items) |-> items[i].left.path]

Taken(w) == SubSeq(w.items, 1, w.pos - 1)

\* C9: ordering.  The yielded sequence is the left traversal in its order,
\* then the right-traversal entries whose path is not under the left root,
\* in the right traversal's order; no entry with an absent left side comes
\* before the left traversal is exhausted, and none from the left traversal
\* comes after one.
C9_Order ==
    /\ PathsOf(yielded) =
          Taken(left_walk) \o
              SelectSeq(Taken(right_walk), LAMBDA p : ~UnderLeft(p))
    /\ (\E i \in 1..Len(yielded) : yielded[i].left.file_type = NoType)
          => Exhausted(left_walk)
    /\ \A i, j \in 1..Len(yielded) :
          (i < j /\ yielded[i].left.file_type = NoType)
              => yielded[j].from = "right"

\* The traversal entries not yet taken.
Remaining ==
    (Len(left_walk.items) + 1 - left_walk.pos)
        + (Len(right_walk.items) + 1 - right_walk.pos)

\* The two sides of an item, as the caller sees the DiffEntry.
DiffEntryOf(item) == [left |-> item.left, right |-> item.right]

\* C16: termination on finite static trees.  At most |L| + |R| entries are
\* yielded, for every entry yielded has taken a new entry from a traversal,
\* so that after at most |L| + |R| calls next() returns None; None is
\* returned only once both traversals are drained; and no DiffEntry that was
\* yielded is yielded again.
C16_Termination ==
    /\ Len(yielded) <= Cardinality(DOMAIN left_root)
                          + Cardinality(DOMAIN right_root)
    /\ Len(yielded) + Remaining <= Cardinality(DOMAIN left_root)
                                      + Cardinality(DOMAIN right_root)
    /\ pc = "done" => Exhausted(left_walk) /\ Exhausted(right_walk)
    /\ \A i, j \in 1..Len(yielded) :
          DiffEntryOf(yielded[i]) = DiffEntryOf(yielded[j]) => i = j

\* C16 witness: the walk of two trees without a common path has ended after
\* |L| + |R| entries.
C16_Witness ==
    /\ pc = "done"
    /\ Len(yielded) >= 2
    /\ Len(yielded) = Cardinality(DOMAIN left_root) + Cardinality(DOMAIN right_root)

\* C18 as stated: every call of next() takes at most one entry from the
\* traversals and makes at most one existence check, with the metadata stats
\* of the one entry it yields.
C18_OneEntryPerCall ==
    /\ work.taken <= 1
    /\ work.exists <= 1
    /\ work.stats <= 2

\* The right-traversal entries the last call took and did not yield, when
\* that call took `n` entries that it did not yield.
PassedOver(n) == { right_walk.items[k] : k \in (right_walk.pos - n)..(right_walk.pos - 1) }

\* C18 amended: a call of next() yields at most one entry and makes one
\* existence check per traversal entry it takes.  In the left-driven phase
\* it takes exactly one entry, the one it yields, with one or two metadata
\* stats.  In the right-driven phase it takes the right entries up to the
\* first whose path does not exist under the left root, which it yields with
\* one metadata stat, or up to the end, returning None with no stat; every
\* entry it passes over exists under the left root and none is taken beyond
\* the one yielded.
C18_WorkPerCall ==
    /\ work.exists = work.taken
    /\ (pc = "iter" /\ yielded # <<>>) =>
          LET e == yielded[Len(yielded)]
          IN  IF e.from = "left"
              THEN /\ work.taken = 1
                   /\ work.stats \in {1, 2}
                   /\ left_walk.items[left_walk.pos - 1] = e.left.path
              ELSE /\ work.taken >= 1
                   /\ work.stats = 1
                   /\ right_walk.items[right_walk.pos - 1] = e.right.path
                   /\ \A p \in PassedOver(work.taken) \ {e.right.path} :
                         PathExists(left_root, p)
    /\ pc = "done" =>
          /\ work.stats = 0
          /\ \A p \in PassedOver(work.taken) : PathExists(left_root, p)

\* C18 witness: a call in the right-driven phase passed over an entry that
\* exists under the left root and yielded the next one.
C18_Witness ==
    /\ pc = "iter" /\ yielded # <<>>
    /\ yielded[Len(yielded)].from = "right"
    /\ work.taken = 2 /\ work.exists = 2 /\ work.stats = 1

\* C20: presence is decided on the entry itself.  A side whose path is
\* occupied by a symbolic link, whatever the link points at, is resolved as
\* present with the kind symlink, never as missing; and a side under whose
\* root the path is not an entry (it may be reachable through a symlinked
\* directory) is resolved as missing.
C20_PresenceOfLinks ==
    \A i \in 1..Len(yielded) :
        LET p == yielded[i].left.path
        IN  /\ (p \in DOMAIN right_root /\ right_root[p].kind = "symlink")
                  => yielded[i].right.file_type = "symlink"
            /\ (p \in DOMAIN left_root /\ left_root[p].kind = "symlink")
                  => yielded[i].left.file_type = "symlink"
            /\ p \notin DOMAIN right_root => yielded[i].right.file_type = NoType
            /\ p \notin DOMAIN left_root => yielded[i].left.file_type = NoType

\* ------------------------------------------------------------------------
\* Properties of the paired walk on a live file system (SpecLive, SpecErr).

\* C13: absence is never reported as an I/O failure, also when another
\* process removes a path during the walk.  As long as no file system call
\* has failed with an I/O error, every step yields Ok(DiffEntry): a side that
\* is not there when it is resolved has an absent kind.
C13_AbsenceIsNotAnError ==
    faults = 0 => \A i \in 1..Len(yielded) : yielded[i].ok

\* The entries taken from the two traversals so far.
TakenCount == (left_walk.pos - 1) + (right_walk.pos - 1)

\* C17: an error does not abort the paired walk.  Every step, a failed one
\* included, has consumed its own entry from a traversal, so that a failed
\* entry is not retried; the traversal it came from yields no later item for
\* its path; and the walk ends only when both traversals are drained, so
\* that after Some(Err(_)) the next call goes on with the next entry.
C17_ErrorDoesNotAbort ==
    /\ Len(yielded) + (IF cur = NoCur THEN 0 ELSE 1) <= TakenCount
    /\ pc = "done" => Exhausted(left_walk) /\ Exhausted(right_walk)
    /\ (yielded # <<>> /\ ~yielded[Len(yielded)].ok /\ cur = NoCur
          /\ ~(Exhausted(left_walk) /\ Exhausted(right_walk)))
         => pc = "iter"
    /\ \A i, j \in 1..Len(yielded) :
         (i < j /\ ~yielded[i].ok /\ yielded[i].left.path # <<>>
            /\ yielded[i].from = yielded[j].from)
           => yielded[j].left.path # yielded[i].left.path

\* C17 witness: a step failed on the metadata of its entry, and a later
\* call yielded the next entry of the same traversal.
C17_Witness ==
    \E i, j \in 1..Len(yielded) :
        /\ i < j
        /\ ~yielded[i].ok /\ yielded[i].left.path # <<>>
        /\ yielded[j].ok /\ yielded[j].from = yielded[i].from

\* ------------------------------------------------------------------------
\* Properties of see_difference (SpecSee).

\* C14: see_difference returns the error MissingFiles whenever some file or
\* directory exists under only one of the two roots, and not Ok(()).
C14_MissingFilesReported ==
    (pc = "returned" /\ DOMAIN left_root # DOMAIN right_root)
        => ret = "Err(MissingFiles)"

\* The two roots hold the same relative paths with the same kinds.
SameLayout ==
    /\ DOMAIN left_root = DOMAIN right_root
    /\ \A p \in DOMAIN left_root : left_root[p].kind = right_root[p].kind

\* The regular files under both roots.
CommonFiles == { p \in DOMAIN left_root \cap DOMAIN right_root :
                   left_root[p].kind = "file" /\ right_root[p].kind = "file" }

\* The two files at p have as many lines and differ in one.
LineMismatch(p) ==
    /\ Len(LinesOf(left_root[p].data)) = Len(LinesOf(right_root[p].data))
    /\ LinesOf(left_root[p].data) # LinesOf(right_root[p].data)

\* One of the two files at p has more lines than the other.
LengthMismatch(p) ==
    Len(LinesOf(left_root[p].data)) # Len(LinesOf(right_root[p].data))

\* C15: when the two roots differ only in the text of same-named files,
\* see_difference (no I/O error met) returns Err(ContentMismatch) if files
\* differ in a line, and Err(FileLengthMismatch) if one file has more lines
\* than the other.  (The line number, paths and line contents that the
\* ContentMismatch value identifies are fields of that value.)
C15_ContentMismatchReported ==
    (pc = "returned" /\ ~faulted /\ SameLayout) =>
        /\ ((\E p \in CommonFiles : LineMismatch(p))
               /\ ~(\E p \in CommonFiles : LengthMismatch(p)))
              => ret = "Err(ContentMismatch)"
        /\ ((\E p \in CommonFiles : LengthMismatch(p))
               /\ ~(\E p \in CommonFiles : LineMismatch(p)))
              => ret = "Err(FileLengthMismatch)"

\* ------------------------------------------------------------------------
\* Properties of the assertion policy (SpecAssert).

LeftKind == entry.left.file_type
RightKind == entry.right.file_type

\* The bytes of the two files of the entry, as they stand on disk.
SameBytes == left_root[entry.left.path].data = right_root[entry.right.path].data

ReadFailed == \E i \in 1..Len(reads) : ~reads[i].ok

Failed(kind) == ~verdict.ok /\ verdict.kind = kind

\* C6: DiffEntry::assert classifies by existence, then type, then content:
\* Missing if a side is absent; else FileType if the kinds differ; else, for
\* two regular files, Content if the bytes differ or cannot be read and
\* success if they are equal; else success.
C6_Precedence ==
    pc = "assert" =>
        /\ (LeftKind = NoType \/ RightKind = NoType) => Failed("Missing")
        /\ (LeftKind # NoType /\ RightKind # NoType /\ LeftKind # RightKind)
              => Failed("FileType")
        /\ (LeftKind = "file" /\ RightKind = "file")
              => IF ~ReadFailed /\ SameBytes THEN verdict.ok ELSE Failed("Content")
        /\ (LeftKind = RightKind /\ LeftKind \notin {NoType, "file"}) => verdict.ok

\* C6 witness: the three kinds of failure each have their case: here two
\* regular files of different bytes were read and classified Content.
C6_Witness ==
    /\ pc = "assert"
    /\ LeftKind = "file" /\ RightKind = "file"
    /\ ~SameBytes /\ ~ReadFailed
    /\ Failed("Content")

\* C7: assert_file_type fails, with FileType, exactly when both sides are
\* present and of different kinds; it succeeds when a side is missing and
\* opens no file.
C7_FileTypeOnly ==
    pc = "assert_file_type" =>
        /\ ~verdict.ok <=>
              (LeftKind # NoType /\ RightKind # NoType /\ LeftKind # RightKind)
        /\ ~verdict.ok => verdict.kind = "FileType"
        /\ reads = <<>>

\* C7 witness: assert_file_type has passed an entry whose left side is
\* missing.
C7_Witness ==
    /\ pc = "assert_file_type"
    /\ LeftKind = NoType /\ RightKind = "file"
    /\ verdict.ok

\* C8: assert_content passes without a read unless both sides are regular
\* files; then it passes iff the bytes are equal, fails with Content and no
\* cause if they differ, and fails with Content and the cause if a read
\* fails.  Over the four operations an error carries a cause exactly when a
\* read failed.
C8_ContentAndCause ==
    /\ pc = "assert_content" =>
         IF ~(LeftKind = "file" /\ RightKind = "file")
         THEN verdict.ok /\ reads = <<>>
         ELSE IF ReadFailed
         THEN Failed("Content") /\ verdict.cause
         ELSE IF SameBytes
         THEN verdict.ok
         ELSE Failed("Content") /\ ~verdict.cause
    /\ (pc \in {"assert", "assert_exists", "assert_file_type", "assert_content"}
          /\ ~verdict.ok)
         => (verdict.cause <=> ReadFailed)

\* C8 witness: assert_content read the left file, failed to read the right
\* one, and returned Content with the cause.
C8_Witness ==
    /\ pc = "assert_content"
    /\ Len(reads) = 2 /\ reads[1].ok /\ ~reads[2].ok
    /\ Failed("Content") /\ verdict.cause

\* C19: file bytes are read only for confirmed regular-file pairs.  assert
\* and assert_content open a file only when both sides have a present kind
\* and both kinds are regular file: the left file first, then the right one,
\* each at most once; no file is opened for an entry with a missing side, two
\* different kinds, or two kinds that are not regular file.  When the left
\* read fails the right file is not read.
C19_ReadsOnlyFilePairs ==
    pc \in {"assert", "assert_content"} =>
        /\ reads # <<>> => (LeftKind = "file" /\ RightKind = "file")
        /\ Len(reads) <= 2
        /\ Len(reads) >= 1 =>
              /\ reads[1].side = "left" /\ reads[1].path = entry.left.path
              /\ ~reads[1].ok => Len(reads) = 1
        /\ Len(reads) = 2 =>
              reads[2].side = "right" /\ reads[2].path = entry.right.path

\* C19 witness: assert failed to read the left file of two regular files and
\* did not open the right one.
C19_Witness ==
    /\ pc = "assert"
    /\ LeftKind = "file" /\ RightKind = "file"
    /\ Len(reads) = 1 /\ ~reads[1].ok
    /\ Failed("Content")

\* The granular checks run in the order assert_exists, assert_file_type,
\* assert_content on the same entry and the same read outcomes: the verdict of
\* the first that fails, or success.
Composed(e, lfail, rfail) ==
    LET x == DiffEntry_assert_exists(e).verdict
        t == DiffEntry_assert_file_type(e).verdict
        c == DiffEntry_assert_content(e, lfail, rfail).verdict
    IN  IF ~x.ok THEN x ELSE IF ~t.ok THEN t ELSE c

\* The read outcomes the log of files opened is compatible with: a read that
\* was made had the outcome logged, one that was not made may have had either.
OutcomesOfReads(lfail, rfail) ==
    \A i \in 1..Len(reads) :
        /\ reads[i].side = "left" => (reads[i].ok <=> ~lfail)
        /\ reads[i].side = "right" => (reads[i].ok <=> ~rfail)

\* C21: DiffEntry::assert is the ordered composition of the granular checks:
\* for every entry and every outcome of the file reads it succeeds iff
\* assert_exists, assert_file_type and assert_content all succeed, and when it
\* fails its kind and cause are those of the first failing check in that
\* order.
C21_AssertIsComposition ==
    pc = "assert" =>
        \A lfail, rfail \in BOOLEAN :
            OutcomesOfReads(lfail, rfail) =>
                /\ verdict = Composed(entry, lfail, rfail)
                /\ verdict.ok <=>
                      /\ DiffEntry_assert_exists(entry).verdict.ok
                      /\ DiffEntry_assert_file_type(entry).verdict.ok
                      /\ DiffEntry_assert_content(entry, lfail, rfail).verdict.ok

\* C21 witness: assert has failed an entry that passes assert_exists and
\* fails assert_file_type, the second check of the order, with its kind.
C21_Witness ==
    /\ pc = "assert"
    /\ DiffEntry_assert_exists(entry).verdict.ok
    /\ ~DiffEntry_assert_file_type(entry).verdict.ok
    /\ verdict = into_error("FileType")

\* ------------------------------------------------------------------------
\* Properties of zip_dir_files_to_same_name (SpecZip).

InList(x, q) == \E i \in DOMAIN q : q[i] = x

\* The names of el2, as passed in, that el1 does not hold, in el2's order.
OnlyInEl2 == SelectSeq(zip_el2_before, LAMBDA m : ~InList(m, zip_el1))

\* C23: zip_dir_files_to_same_name pairs two lists without repetition
\* completely and without repetition.  The rows start with one row per name
\* n of el1, in el1's order, (Some(n), Some(n)) if el2 holds n and
\* (Some(n), None) otherwise, each name in exactly one row; then comes one
\* row (None, Some(m)) per name m that only el2 holds, in el2's order; no row
\* has two different names; on return el2 holds exactly the names that only
\* el2 held.
C23_ZipPairsCompletely ==
    pc = "returned" =>
        /\ Len(zipped) = Len(zip_el1) + Len(OnlyInEl2)
        /\ \A i \in 1..Len(zip_el1) :
              /\ zipped[i] = IF InList(zip_el1[i], zip_el2_before)
                             THEN <<Some(zip_el1[i]), Some(zip_el1[i])>>
                             ELSE <<Some(zip_el1[i]), None>>
              /\ Cardinality({ k \in 1..Len(zipped) :
                                 zipped[k][1] = Some(zip_el1[i]) }) = 1
        /\ \A j \in 1..Len(OnlyInEl2) :
              zipped[Len(zip_el1) + j] = <<None, Some(OnlyInEl2[j])>>
        /\ \A k \in 1..Len(zipped) :
              (zipped[k][1].some /\ zipped[k][2].some)
                  => zipped[k][1].name = zipped[k][2].name
        /\ zip_el2 = OnlyInEl2

\* C23 witness: the function has returned on lists that share a name, found
\* at different places of the two, and that each hold a name of their own.
C23_Witness ==
    /\ pc = "returned"
    /\ \E i \in DOMAIN zip_el1, j \in DOMAIN zip_el2_before :
          i # j /\ zip_el1[i] = zip_el2_before[j]
    /\ \E i \in DOMAIN zip_el1 : ~InList(zip_el1[i], zip_el2_before)
    /\ zip_el2 # <<>> /\ Len(zip_el2) < Len(zip_el2_before)

\* ------------------------------------------------------------------------
\* Properties of cloning an error (SpecClone).

\* C24: cloning an IoError, and so an AssertionError that carries a cause,
\* terminates for every variant of the inner error: the calls of
\* InnerIoError::clone never use up the stack, and the clone returned is of
\* the same variant for Io and WalkDirEmpty and is WalkDirEmpty for WalkDir.
C24_CloneTerminates ==
    /\ pc # "aborted"
    /\ pc = "cloned" =>
          cloned = IF inner = "WalkDir" THEN "WalkDirEmpty" ELSE inner

=============================================================================
